---------------------------- MODULE Spec2Model ----------------------------
(***************************************************************************)
(* State-machine model of the 3DSS waterfall of deskHPSDR                  *)
(* (src/src/waterfall3dss.c): the per-receiver WaterfallGLState with its   *)
(* ring-buffered spectrum history, the producer's update tick              *)
(* (waterfall3dss_update, called from update_display under the receiver's  *)
(* display mutex), the renderer's pass (waterfall3dss_gl_render) and the   *)
(* pointer/scroll handlers.                                                *)
(*                                                                         *)
(* Numbers.  dB values and frequencies are integers.  The float camera     *)
(* fields tilt_angle and zoom_level are kept in thousandths (2.8f is       *)
(* 2800), pointer coordinates in whole pixels and smooth-scroll deltas in  *)
(* whole units.  The double quotient of the rotation is computed exactly   *)
(* and then truncated toward zero like the C cast to int.                  *)
(***************************************************************************)
EXTENDS Integers, Sequences, FiniteSets, TLC

(***************************************************************************)
(* Bounds of the model and program constants.                              *)
(***************************************************************************)
\* st->depth: the model keeps a short ring so that it wraps within a run.
WATERFALL_DEPTH == 3
\* update ticks per run (st->update_count is an unbounded int in the code)
MaxUpdates == 8
\* update ticks per run of the frequency tracker's specification
MaxTrack == 6
\* rx->pixels: length of rx->pixel_samples
Pixels == 4

\* the floor value written by wf_reset_history and by the rotation
FLOOR_DB == -140
\* fallback width of waterfall3dss_update when the widget has no width
FALLBACK_W == 800
\* "Skip first 5 updates": the comparison st->update_count < 5
STABILIZE == 5

\* Inputs of an update tick.
Freqs == {100, 106, 109}
SampleRates == {12, 24}
Zooms == {1, 2}
Pans == {0, 1}
Widths == {2, 3, 4}
Signals == {1, 2}

\* rx->pixel_samples as delivered for signal s: distinct in every cell
pixel_samples(s) == [j \in 0 .. (Pixels - 1) |-> -(10 * s + j)]

VARIABLES
  st,                     \* "NULL" or "alloc": wf_get(rx)
  prog,                   \* st->prog (0: no shader program yet)
  depth,                  \* st->depth
  bins,                   \* st->bins
  head,                   \* st->head
  history,                \* st->history, flat, depth*bins cells
  update_count,           \* st->update_count
  waterfall_zoom,         \* st->waterfall_zoom
  waterfall_pan,          \* st->waterfall_pan
  tilt_angle,             \* st->tilt_angle  (thousandths)
  zoom_level,             \* st->zoom_level  (thousandths)
  dragging,               \* st->dragging
  drag_start_y,           \* st->drag_start_y
  drag_start_tilt,        \* st->drag_start_tilt (thousandths)
  waterfall_frequency,    \* rx->waterfall_frequency
  waterfall_sample_rate,  \* rx->waterfall_sample_rate
  display_mutex,          \* rx->display_mutex: "free", "producer", "renderer"
  render_queued,          \* gtk_gl_area_queue_render was called, not yet served
  inp,                    \* the arguments of the last update tick
  did,                    \* what the last update tick did, stage by stage
  log,                    \* rows pushed since the last reset, oldest first
  clean,                  \* no rotation since the last reset
  pcP,                    \* update_display: "idle", "locked", "updated"
  rp,                     \* the render pass: its position, its locals, and
                          \* the store it found when it took the mutex
  before,                 \* the store before the last direct wf_reset_history
  levels,                 \* rx->waterfall_low, waterfall_high,
                          \* waterfall_automatic, waterfall3dss_palette
  vertex,                 \* the last call of sample_to_color since the levels
                          \* were set: arguments, bounds used, outputs
  wf2,                    \* the 2D waterfall: rx->pixbuf with my_width and
                          \* my_height, rx->waterfall_zoom, rx->waterfall_pan,
                          \* and what the last 2D update did
  retune                  \* when switched on: the frequency adopted at the
                          \* last reset of the history, and the bins the
                          \* history was rotated by since

histVars == <<depth, bins, head, history>>
trackVars == <<waterfall_zoom, waterfall_pan, waterfall_frequency, waterfall_sample_rate>>
camVars == <<tilt_angle, zoom_level, dragging, drag_start_y, drag_start_tilt>>
tickVars == <<update_count, inp, did, log, clean>>
procVars == <<display_mutex, pcP, rp>>
mapVars == <<levels, vertex, wf2, retune>>
vars == <<st, prog, histVars, trackVars, camVars, tickVars, procVars, render_queued, before,
          mapVars>>

(***************************************************************************)
(* Helpers                                                                 *)
(***************************************************************************)
\* C's conversion of a quotient to int: truncation toward zero (b > 0)
TruncDiv(a, b) == IF a >= 0 THEN a \div b ELSE -((-a) \div b)

clampf(x, a, b) == IF x < a THEN a ELSE (IF x > b THEN b ELSE x)

Min(a, b) == IF a < b THEN a ELSE b

Abs(a) == IF a < 0 THEN -a ELSE a

\* row r of a flat store h of b columns, as a function on 0..b-1
RowOf(h, b, r) == [i \in 0 .. (b - 1) |-> h[r * b + i]]

FloorRow(b) == [i \in 0 .. (b - 1) |-> FLOOR_DB]

\* C's a % b (b > 0): the remainder has the sign of a
CMod(a, b) == a - b * TruncDiv(a, b)

\* mutant of row_at_age: ages are counted from head, not from the row before it
row_at_age_FromHead(hd, d, D) == CMod(hd - d + D, D)

\* mutant of row_at_age: the + D that keeps the dividend positive is missing
row_at_age_NoBias(hd, d, D) == CMod(hd - d - 1, D)

\* physical row of the row that is d ticks older than the newest
row_at_age(hd, d, D) == CMod(hd - d - 1 + D, D)


(***************************************************************************)
(* The history store: st, depth, bins, head and history as one record, so  *)
(* that the stages of an update tick can be chained.                       *)
(***************************************************************************)
Store == [st |-> st, depth |-> depth, bins |-> bins, head |-> head, history |-> history]

\* mutant of wf_reset_history: the cells are floored but the head stays
wf_reset_history_KeepHead(S) ==
  IF S.st = "NULL" \/ DOMAIN S.history = {}
  THEN S
  ELSE [S EXCEPT !.history = [i \in 0 .. (S.depth * S.bins - 1) |-> FLOOR_DB]]

\* wf_reset_history: every cell to the floor value, head to 0; nothing on a
\* missing state or an unallocated history
wf_reset_history(S) ==
  IF S.st = "NULL" \/ DOMAIN S.history = {}
  THEN S
  ELSE [S EXCEPT !.history = [i \in 0 .. (S.depth * S.bins - 1) |-> FLOOR_DB],
                 !.head = 0]

\* mutant of StageZoom: the zoom is adopted without resetting the history
StageZoom_NoReset(S, z) == S

\* "Detect zoom changes and reset history"
StageZoom(S, z) ==
  IF waterfall_zoom # z THEN wf_reset_history(S) ELSE S

\* g_malloc0(n * sizeof(float)): n zeroed cells (NULL for n = 0)
g_malloc0(n) == IF n = 0 THEN << >> ELSE [i \in 0 .. (n - 1) |-> 0]

\* the bin count of the tick: the widget's width, 800 if it has none
EffectiveBins(w) == IF w <= 0 THEN FALLBACK_W ELSE w

\* mutant of StageResize: the new store is not reset after the allocation
StageResize_NoReset(S, nb) ==
  IF S.bins # nb \/ DOMAIN S.history = {}
  THEN [S EXCEPT !.bins = nb, !.history = g_malloc0(S.depth * nb)]
  ELSE S

\* mutant of StageResize: the bin count is adopted, the buffer is kept
StageResize_KeepsBuffer(S, nb) ==
  IF S.bins # nb \/ DOMAIN S.history = {}
  THEN [S EXCEPT !.bins = nb]
  ELSE S

\* "if (st->bins != bins || !st->history)": a new store of depth*bins cells
StageResize(S, nb) ==
  IF S.bins # nb \/ DOMAIN S.history = {}
  THEN wf_reset_history([S EXCEPT !.bins = nb,
                                  !.history = g_malloc0(S.depth * nb)])
  ELSE S

\* rotate_bins = (int)((double)(waterfall_frequency - current_freq) / hz_per_bin)
\* with hz_per_bin = sample_rate / bins
RotateBins(wf, f, sr, b) == TruncDiv((wf - f) * b, sr)

\* mutant of RotateRow: the cells are moved but the vacated ones not cleared
RotateRow_NoClear(row, b, k) ==
  [i \in 0 .. (b - 1) |-> IF i - k >= 0 /\ i - k < b THEN row[i - k] ELSE row[i]]

\* one row shifted by k bins: memmove of nmove cells, then nclear cells cleared
RotateRow(row, b, k) ==
  IF k < 0
  THEN LET nmove == clampf(b + k, 0, b)
           nclear == Min(-k, b)
       IN [i \in 0 .. (b - 1) |->
             IF i >= b - nclear THEN FLOOR_DB
             ELSE IF i < nmove THEN row[i - k] ELSE row[i]]
  ELSE LET nmove == clampf(b - k, 0, b)
           nclear == Min(k, b)
       IN [i \in 0 .. (b - 1) |->
             IF i < nclear THEN FLOOR_DB
             ELSE IF i - k >= 0 /\ i - k < nmove THEN row[i - k] ELSE row[i]]

\* "for (int r = 0; r < st->depth; r++)": every row of the store rotated
RotateHistory(S, k) ==
  [S EXCEPT !.history =
     [j \in 0 .. (S.depth * S.bins - 1) |->
        RotateRow(RowOf(S.history, S.bins, j \div S.bins), S.bins, k)[j % S.bins]]]

\* mutant of FreqDecision: a retune of exactly half the sample rate resets
FreqDecision_Strict(wf, wsr, f, sr) ==
  IF wf # 0 /\ sr = wsr
  THEN IF wf # f
       THEN LET half == sr \div 2
            IN IF wf <= f - half \/ wf >= f + half THEN "reset" ELSE "rotate"
       ELSE "same"
  ELSE "reset"

\* what "Handle frequency changes" decides: "reset", "rotate" or "same"
FreqDecision(wf, wsr, f, sr) ==
  IF wf # 0 /\ sr = wsr
  THEN IF wf # f
       THEN LET half == sr \div 2
            IN IF wf < f - half \/ wf > f + half THEN "reset" ELSE "rotate"
       ELSE "same"
  ELSE "reset"

\* "Handle frequency changes": reset, rotate or leave the store
StageFrequency(S, wf, wsr, f, sr) ==
  LET what == FreqDecision(wf, wsr, f, sr)
      k == RotateBins(wf, f, sr, S.bins)
  IN IF what = "reset" THEN wf_reset_history(S)
     ELSE IF what = "rotate" /\ k # 0 THEN RotateHistory(S, k)
     ELSE S

\* mutant of OutOfSource: the upper test is off by one
OutOfSource_OffByOne(src_idx, pixels_total) ==
  src_idx < 0 \/ src_idx > pixels_total

\* src_idx < 0 || src_idx >= pixels_total
OutOfSource(src_idx, pixels_total) ==
  src_idx < 0 \/ src_idx >= pixels_total

\* rx->pixel_samples[src_idx]; a read outside the array yields some value
ReadSample(samples, src_idx) ==
  IF src_idx \in DOMAIN samples THEN samples[src_idx] ELSE 0

\* the indices at which the copy reads rx->pixel_samples
SourceReads(b, pan, pixels_total) ==
  {i + pan : i \in {j \in 0 .. (b - 1) : ~OutOfSource(j + pan, pixels_total)}}

\* the row copied from pixel_samples with the pan offset
PushedRow(b, pan, samples, pixels_total) ==
  [i \in 0 .. (b - 1) |->
     IF OutOfSource(i + pan, pixels_total) THEN FLOOR_DB
     ELSE ReadSample(samples, i + pan)]

\* mutant of PushRow: head is advanced without wrapping
PushRow_NoWrap(S, row) ==
  [S EXCEPT !.history = [j \in 0 .. (S.depth * S.bins - 1) |->
                           IF j \div S.bins = S.head THEN row[j % S.bins]
                           ELSE S.history[j]],
            !.head = S.head + 1]

\* "Copy new spectrum data": the row written at head, head advanced
PushRow(S, row) ==
  [S EXCEPT !.history = [j \in 0 .. (S.depth * S.bins - 1) |->
                           IF j \div S.bins = S.head THEN row[j % S.bins]
                           ELSE S.history[j]],
            !.head = CMod(S.head + 1, S.depth)]

\* mutant of SkipsPush: no tick is skipped
SkipsPush_Never(uc) == FALSE

\* mutant of SkipsPush: the window is one tick longer
SkipsPush_Late(uc) == uc <= STABILIZE

\* "Skip first 5 updates for AGC stabilization": the tick with this
\* (already incremented) update count returns before the copy
SkipsPush(uc) == uc < STABILIZE

NoInput == [f |-> 0, sr |-> 0, z |-> 0, p |-> 0, w |-> 0, s |-> 0]
NoTick == [kind |-> "none", zoomReset |-> FALSE, resized |-> FALSE,
           freq |-> "none", k |-> 0, pushed |-> FALSE, queued |-> FALSE,
           src |-> {}]

\* no store: the value of before when wf_reset_history was not called directly
NoStore == [st |-> "none", depth |-> 0, bins |-> 0, head |-> 0, history |-> << >>]

\* the render pass at rest
NoPass == [pc |-> "idle", W |-> 0, D |-> 0, B |-> 0, d |-> 0,
           snap |-> NoStore, reads |-> {}, bin |-> << >>,
           needed |-> 0, cap |-> 0, out |-> 0, strips |-> << >>, drawn |-> {},
           arg |-> <<0, 0, FALSE>>, ret |-> "none"]

\* rx_create_receiver: waterfall_low, waterfall_high, waterfall_automatic;
\* the palette is zero like the rest of the new receiver
DefaultLevels == [low |-> -100, high |-> -40, automatic |-> 0, palette |-> 0]

\* the 2D waterfall before its first configure event: no pixbuf
No2D == [pixbuf |-> "NULL", w |-> 0, h |-> 0, pixels |-> << >>,
         zoom |-> 0, pan |-> 0,
         kind |-> "none", vfo |-> 0, sr |-> 0, z |-> 0, old |-> 0,
         rotfreq |-> 0, rotate_pixels |-> 0, drawn |-> FALSE]

\* the rotations are not being added up
NoRetune == [on |-> FALSE, first |-> 0, shifted |-> 0]

\* no call of sample_to_color yet
NoVertex == [lv |-> DefaultLevels, row |-> << >>, sample |-> 0, age |-> 0,
             dist01 |-> <<0, 1>>, db_min |-> 0, db_max |-> 0, p |-> <<0, 1>>,
             r |-> <<0, 1>>, g |-> <<0, 1>>, b |-> <<0, 1>>, a |-> <<0, 1>>,
             h01 |-> <<0, 1>>]

(***************************************************************************)
(* Initial state: no WaterfallGLState yet, nothing recorded in rx.         *)
(***************************************************************************)
Init ==
  /\ st = "NULL" /\ prog = 0
  /\ depth = 0 /\ bins = 0 /\ head = 0 /\ history = << >>
  /\ update_count = 0
  /\ waterfall_zoom = 0 /\ waterfall_pan = 0
  /\ tilt_angle = 0 /\ zoom_level = 0 /\ dragging = FALSE
  /\ drag_start_y = 0 /\ drag_start_tilt = 0
  /\ waterfall_frequency = 0 /\ waterfall_sample_rate = 0
  /\ display_mutex = "free" /\ pcP = "idle" /\ rp = NoPass
  /\ render_queued = FALSE
  /\ inp = NoInput /\ did = NoTick /\ log = << >> /\ clean = FALSE
  /\ before = NoStore
  /\ levels = DefaultLevels /\ vertex = NoVertex /\ wf2 = No2D
  /\ retune = NoRetune

\* rx->pixels when the state is created
InitPixels == {0, Pixels}

\* waterfall3dss_init: creates the state once (g_malloc0 zeroes every field)
waterfall3dss_init(px) ==
  IF st = "NULL"
  THEN LET S == wf_reset_history([st |-> "alloc", depth |-> WATERFALL_DEPTH,
                                  bins |-> px, head |-> 0,
                                  history |-> g_malloc0(WATERFALL_DEPTH * px)])
       IN /\ st' = "alloc"
          /\ depth' = S.depth /\ bins' = S.bins /\ head' = S.head
          /\ history' = S.history
          /\ update_count' = 0
          /\ prog' = 0 /\ waterfall_zoom' = 0 /\ waterfall_pan' = 0
          /\ tilt_angle' = 0 /\ zoom_level' = 0 /\ dragging' = FALSE
          /\ drag_start_y' = 0 /\ drag_start_tilt' = 0
          /\ log' = << >> /\ clean' = (px > 0)
          /\ UNCHANGED <<waterfall_frequency, waterfall_sample_rate, inp, did,
                         procVars, render_queued, before, mapVars>>
  ELSE UNCHANGED vars

\* mutant of waterfall3dss_gl_realize: the interactive controls are not set
waterfall3dss_gl_realize_NoControls(ok) ==
  IF st = "NULL" \/ ~ok
  THEN UNCHANGED vars
  ELSE /\ prog' = 1
       /\ waterfall_zoom' = 0 /\ waterfall_pan' = 0
       /\ render_queued' = TRUE
       /\ UNCHANGED <<st, histVars, camVars,
                      waterfall_frequency, waterfall_sample_rate,
                      tickVars, procVars, before, mapVars>>

\* waterfall3dss_gl_realize: ok is FALSE when the GL context, the shaders
\* or the link fail (the handler returns before the controls are set)
waterfall3dss_gl_realize(ok) ==
  IF st = "NULL" \/ ~ok
  THEN UNCHANGED vars
  ELSE /\ prog' = 1
       /\ tilt_angle' = 2800 /\ zoom_level' = 2000 /\ dragging' = FALSE
       /\ waterfall_zoom' = 0 /\ waterfall_pan' = 0
       /\ render_queued' = TRUE
       /\ UNCHANGED <<st, histVars, drag_start_y, drag_start_tilt,
                      waterfall_frequency, waterfall_sample_rate,
                      tickVars, procVars, before, mapVars>>

(***************************************************************************)
(* waterfall3dss_update: one update tick with the current VFO frequency f, *)
(* sample rate sr, zoom z, pan p, widget width w and samples of signal s.  *)
(***************************************************************************)
waterfall3dss_update(f, sr, z, p, w, s) ==
  LET nb == EffectiveBins(w)
      S1 == StageZoom(Store, z)
      S2 == StageResize(S1, nb)
      what == FreqDecision(waterfall_frequency, waterfall_sample_rate, f, sr)
      k == IF what = "rotate"
           THEN RotateBins(waterfall_frequency, f, sr, S2.bins) ELSE 0
      S3 == IF S2.bins > 0
            THEN StageFrequency(S2, waterfall_frequency, waterfall_sample_rate, f, sr)
            ELSE S2
      uc == update_count + 1
      row == PushedRow(S3.bins, p, pixel_samples(s), Pixels)
      S4 == IF SkipsPush(uc) THEN S3 ELSE PushRow(S3, row)
      anyReset == waterfall_zoom # z \/ S1.bins # nb \/ what = "reset"
      rotated == what = "rotate" /\ k # 0
      clean1 == IF rotated THEN FALSE ELSE IF anyReset THEN TRUE ELSE clean
      log1 == IF rotated \/ anyReset THEN << >> ELSE log
  IN /\ inp' = [f |-> f, sr |-> sr, z |-> z, p |-> p, w |-> w, s |-> s]
     /\ before' = before
     /\ UNCHANGED <<levels, vertex, wf2>>
     /\ IF st = "NULL" \/ DOMAIN history = {} \/ nb <= 2
        THEN /\ did' = [NoTick EXCEPT !.kind = "early"]
             /\ UNCHANGED <<st, prog, histVars, trackVars, camVars,
                            update_count, log, clean, render_queued, retune>>
        ELSE /\ waterfall_zoom' = z
             /\ waterfall_pan' = p
             /\ depth' = S4.depth /\ bins' = S4.bins /\ head' = S4.head
             /\ history' = S4.history
             /\ waterfall_frequency' = (IF S2.bins > 0 THEN f ELSE waterfall_frequency)
             /\ waterfall_sample_rate' = (IF S2.bins > 0 THEN sr ELSE waterfall_sample_rate)
             /\ update_count' = uc
             /\ render_queued' = TRUE
             /\ did' = [kind |-> "tick", zoomReset |-> waterfall_zoom # z,
                        resized |-> S1.bins # nb, freq |-> what, k |-> k,
                        pushed |-> ~SkipsPush(uc), queued |-> TRUE,
                        src |-> IF SkipsPush(uc) THEN {}
                                ELSE SourceReads(S3.bins, p, Pixels)]
             /\ clean' = clean1
             /\ log' = IF ~SkipsPush(uc) /\ clean1 THEN Append(log1, row) ELSE log1
             /\ retune' = (IF ~retune.on THEN retune
                           ELSE IF anyReset
                           THEN [retune EXCEPT !.first = f, !.shifted = 0]
                           ELSE [retune EXCEPT !.shifted = @ + k])
             /\ UNCHANGED <<st, prog, camVars>>

\* update_display: the producer's timer callback, which takes the display
\* mutex, runs the update tick and releases the mutex.  F, SR, Z, P, W and SG
\* are the frequencies, sample rates, zooms, pans, widget widths and signals
\* the environment may present, max the number of ticks of a run.
update_display(F, SR, Z, P, W, SG, max) ==
  /\ display_mutex = "free" /\ pcP = "idle"
  /\ update_count < max
  /\ \E f \in F, sr \in SR, z \in Z, p \in P, w \in W, s \in SG :
       waterfall3dss_update(f, sr, z, p, w, s)
  /\ UNCHANGED procVars

Create == \E px \in InitPixels : waterfall3dss_init(px)

Realize == \E ok \in BOOLEAN : waterfall3dss_gl_realize(ok)

(***************************************************************************)
(* Spec: the frequency tracker.  The environment retunes, changes sample   *)
(* rate and zoom and resizes the widget; the samples stay those of one     *)
(* signal.                                                                 *)
(***************************************************************************)
Track == update_display(Freqs, SampleRates, Zooms, {0}, Widths, {1}, MaxTrack)

Next == Create \/ Realize \/ Track

Spec == Init /\ [][Next]_vars

(***************************************************************************)
(* SpecRing: the ring buffer.  The environment delivers rows of different  *)
(* signals and pans at a fixed width and sample rate; a zoom change or a   *)
(* realize restarts the history.                                           *)
(***************************************************************************)
Feed == update_display({100, 101}, {24}, Zooms, Pans, {4}, Signals, MaxUpdates)

NextRing == Create \/ Realize \/ Feed

SpecRing == Init /\ [][NextRing]_vars

(***************************************************************************)
(* SpecPush: the copy of a row from rx->pixel_samples.  The environment    *)
(* pans far to the left and to the right of the source array and makes the *)
(* widget narrower and wider than the array.                               *)
(***************************************************************************)
MaxPush == 5
PushPans == {-1000000, -1, 0, 2, 1000000}
PushWidths == {3, 6}

Copy == update_display({100}, {24}, {1}, PushPans, PushWidths, Signals, MaxPush)

NextPush == Create \/ Realize \/ Copy

SpecPush == Init /\ [][NextPush]_vars

(***************************************************************************)
(* SpecReset: wf_reset_history as a function of the store.  The initial    *)
(* states are the stores the function can be handed: no state, a state     *)
(* whose history was never allocated (rx->pixels was 0), and an allocated  *)
(* store with the head at any row and any mix of written and floor cells.  *)
(***************************************************************************)
ResetWidths == {3}
ResetCells == {FLOOR_DB, -11}

ResetStores ==
  {[st |-> "NULL", depth |-> 0, bins |-> 0, head |-> 0, history |-> << >>],
   [st |-> "alloc", depth |-> WATERFALL_DEPTH, bins |-> 0, head |-> 0,
    history |-> << >>]}
  \cup
  UNION {{[st |-> "alloc", depth |-> WATERFALL_DEPTH, bins |-> b, head |-> h,
           history |-> c] :
            h \in 0 .. (WATERFALL_DEPTH - 1),
            c \in [0 .. (WATERFALL_DEPTH * b - 1) -> ResetCells]} :
         b \in ResetWidths}

InitReset ==
  /\ \E S \in ResetStores :
       /\ st = S.st /\ depth = S.depth /\ bins = S.bins /\ head = S.head
       /\ history = S.history
  /\ prog = 0 /\ update_count = 0
  /\ waterfall_zoom = 0 /\ waterfall_pan = 0
  /\ tilt_angle = 0 /\ zoom_level = 0 /\ dragging = FALSE
  /\ drag_start_y = 0 /\ drag_start_tilt = 0
  /\ waterfall_frequency = 0 /\ waterfall_sample_rate = 0
  /\ display_mutex = "free" /\ pcP = "idle" /\ rp = NoPass
  /\ render_queued = FALSE
  /\ inp = NoInput /\ did = NoTick /\ log = << >> /\ clean = FALSE
  /\ before = NoStore
  /\ levels = DefaultLevels /\ vertex = NoVertex /\ wf2 = No2D
  /\ retune = NoRetune

\* one call of wf_reset_history on the current store
ResetCall ==
  LET S == wf_reset_history(Store)
  IN /\ before' = Store
     /\ st' = S.st /\ depth' = S.depth /\ bins' = S.bins /\ head' = S.head
     /\ history' = S.history
     /\ UNCHANGED <<prog, trackVars, camVars, tickVars, procVars, render_queued,
                    mapVars>>

NextReset == ResetCall

SpecReset == InitReset /\ [][NextReset]_vars

(***************************************************************************)
(* The pointer handlers.  Angles and distances are in thousandths: the     *)
(* tilt 2.8 is 2800, the sensitivity 0.002 per pixel is 2 per pixel.       *)
(***************************************************************************)
\* float sensitivity = 0.002f
SENSITIVITY == 2
\* clampf(st->tilt_angle, 0.0f, 5.0f)
TILT_MAX == 5000
\* float zoom_step = 0.15f
ZOOM_STEP == 150
\* clampf(st->zoom_level, 1.0f, 4.0f)
ZOOM_MIN == 1000
ZOOM_MAX == 4000

Buttons == {1, 3}
Ys == {0, 500, 100000}
Directions == {"UP", "DOWN", "SMOOTH", "LEFT"}
Deltas == {-1000000, 1, 1000000}

\* mutant of waterfall3dss_button_press: any button starts a drag
waterfall3dss_button_press_AnyButton(button, y) ==
  IF st = "NULL"
  THEN UNCHANGED vars
  ELSE /\ dragging' = TRUE
       /\ drag_start_y' = y
       /\ drag_start_tilt' = tilt_angle
       /\ UNCHANGED <<st, prog, histVars, trackVars, tilt_angle, zoom_level,
                      tickVars, procVars, render_queued, before, mapVars>>

waterfall3dss_button_press(button, y) ==
  IF st = "NULL" \/ button # 1
  THEN UNCHANGED vars
  ELSE /\ dragging' = TRUE
       /\ drag_start_y' = y
       /\ drag_start_tilt' = tilt_angle
       /\ UNCHANGED <<st, prog, histVars, trackVars, tilt_angle, zoom_level,
                      tickVars, procVars, render_queued, before, mapVars>>

\* mutant of waterfall3dss_motion: the tilt is moved from its current value
waterfall3dss_motion_Incremental(y) ==
  IF st = "NULL" \/ ~dragging
  THEN UNCHANGED vars
  ELSE /\ tilt_angle' = clampf(tilt_angle + (y - drag_start_y) * SENSITIVITY,
                               0, TILT_MAX)
       /\ render_queued' = TRUE
       /\ UNCHANGED <<st, prog, histVars, trackVars, zoom_level, dragging,
                      drag_start_y, drag_start_tilt, tickVars, procVars, before, mapVars>>

\* the pointer-motion handler
waterfall3dss_motion(y) ==
  IF st = "NULL" \/ ~dragging
  THEN UNCHANGED vars
  ELSE /\ tilt_angle' = clampf(drag_start_tilt + (y - drag_start_y) * SENSITIVITY,
                               0, TILT_MAX)
       /\ render_queued' = TRUE
       /\ UNCHANGED <<st, prog, histVars, trackVars, zoom_level, dragging,
                      drag_start_y, drag_start_tilt, tickVars, procVars, before, mapVars>>

waterfall3dss_button_release(button) ==
  IF st = "NULL" \/ button # 1
  THEN UNCHANGED vars
  ELSE /\ dragging' = FALSE
       /\ UNCHANGED <<st, prog, histVars, trackVars, tilt_angle, zoom_level,
                      drag_start_y, drag_start_tilt, tickVars, procVars,
                      render_queued, before, mapVars>>

\* the zoom level a scroll event asks for, before the clamp
ScrolledZoom(direction, delta_y) ==
  CASE direction = "UP" -> zoom_level - ZOOM_STEP
    [] direction = "DOWN" -> zoom_level + ZOOM_STEP
    [] direction = "SMOOTH" -> zoom_level + TruncDiv(delta_y * ZOOM_STEP, 2)
    [] OTHER -> zoom_level

\* mutant of waterfall3dss_scroll: the zoom level is not clamped
waterfall3dss_scroll_NoClamp(direction, delta_y) ==
  IF st = "NULL"
  THEN UNCHANGED vars
  ELSE /\ zoom_level' = ScrolledZoom(direction, delta_y)
       /\ render_queued' = TRUE
       /\ UNCHANGED <<st, prog, histVars, trackVars, tilt_angle, dragging,
                      drag_start_y, drag_start_tilt, tickVars, procVars, before, mapVars>>

waterfall3dss_scroll(direction, delta_y) ==
  IF st = "NULL"
  THEN UNCHANGED vars
  ELSE /\ zoom_level' = clampf(ScrolledZoom(direction, delta_y), ZOOM_MIN, ZOOM_MAX)
       /\ render_queued' = TRUE
       /\ UNCHANGED <<st, prog, histVars, trackVars, tilt_angle, dragging,
                      drag_start_y, drag_start_tilt, tickVars, procVars, before, mapVars>>

Press == \E b \in Buttons, y \in Ys : waterfall3dss_button_press(b, y)

Motion == \E y \in Ys : waterfall3dss_motion(y)

Release == \E b \in Buttons : waterfall3dss_button_release(b)

Scroll == \E dir \in Directions, dy \in Deltas : waterfall3dss_scroll(dir, dy)

(***************************************************************************)
(* SpecUI: the camera controls under any sequence of pointer events.       *)
(***************************************************************************)
NextUI == Create \/ Realize \/ Press \/ Motion \/ Release \/ Scroll

SpecUI == Init /\ [][NextUI]_vars

(***************************************************************************)
(* SpecCam: pointer and scroll events interleaved with update ticks at two *)
(* widget widths, one of which resizes the history.                        *)
(***************************************************************************)
MaxCam == 1

TickCam == update_display({100}, {24}, {1}, {0}, {3, 4}, {1}, MaxCam)

NextCam ==
  Create \/ Realize \/ Press \/ Motion \/ Release \/ Scroll \/ TickCam

SpecCam == Init /\ [][NextCam]_vars

(***************************************************************************)
(* The producer's callback and the render pass as separate steps around    *)
(* the display mutex.                                                      *)
(***************************************************************************)
\* mutant of ProducerLock: the producer does not wait for the mutex
ProducerLock_NoWait(max) ==
  /\ pcP = "idle"
  /\ update_count < max
  /\ pcP' = "locked"
  /\ display_mutex' = "producer"
  /\ UNCHANGED <<st, prog, histVars, trackVars, camVars, tickVars, rp,
                 render_queued, before, mapVars>>

\* g_mutex_lock(&rx->display_mutex) in update_display
ProducerLock(max) ==
  /\ pcP = "idle"
  /\ update_count < max
  /\ display_mutex = "free"
  /\ pcP' = "locked"
  /\ display_mutex' = "producer"
  /\ UNCHANGED <<st, prog, histVars, trackVars, camVars, tickVars, rp,
                 render_queued, before, mapVars>>

\* the update tick, inside the locked section of update_display
ProducerTick(F, SR, Z, P, W, SG) ==
  /\ pcP = "locked"
  /\ \E f \in F, sr \in SR, z \in Z, p \in P, w \in W, s \in SG :
       waterfall3dss_update(f, sr, z, p, w, s)
  /\ pcP' = "updated"
  /\ UNCHANGED <<display_mutex, rp>>

\* g_mutex_unlock(&rx->display_mutex) in update_display
ProducerUnlock ==
  /\ pcP = "updated"
  /\ pcP' = "idle"
  /\ display_mutex' = "free"
  /\ UNCHANGED <<st, prog, histVars, trackVars, camVars, tickVars, rp,
                 render_queued, before, mapVars>>

(***************************************************************************)
(* Single-precision arithmetic of the resampler.  A non-negative float is  *)
(* the record [m, e] with value m / 2^e and 2^23 <= m < 2^24 (m = 0 for    *)
(* zero); results are rounded to nearest, ties to even.                    *)
(***************************************************************************)
RoundHalfEven(n, d) ==
  LET q == n \div d
      r == n % d
  IN IF 2 * r < d THEN q
     ELSE IF 2 * r > d THEN q + 1
     ELSE IF q % 2 = 0 THEN q ELSE q + 1

RECURSIVE f32_round(_, _, _)
\* the float nearest to n / (d * 2^e)
f32_round(n, d, e) ==
  IF n = 0 THEN [m |-> 0, e |-> 0]
  ELSE IF n < 8388608 * d THEN f32_round(2 * n, d, e + 1)
  ELSE IF n >= 16777216 * d THEN f32_round(n, 2 * d, e - 1)
  ELSE LET m == RoundHalfEven(n, d)
       IN IF m = 16777216 THEN [m |-> 8388608, e |-> e - 1]
          ELSE [m |-> m, e |-> e]

\* (float)a / (float)b for small integers a >= 0, b > 0
f32_div(a, b) == f32_round(a, b, 0)

\* x * (float)k for a float x and a small integer k >= 0
f32_mul(x, k) == f32_round(x.m * k, 1, x.e)

\* (int)x
f32_to_int(x) == IF x.e >= 0 THEN x.m \div (2 ^ x.e) ELSE x.m * (2 ^ (-x.e))

\* mutant of ResampleBin: the clamp to B - 2 is missing
ResampleBin_NoClamp(x, W, B) ==
  f32_to_int(f32_mul(f32_div(x, W - 1), B - 1))

\* the bin the renderer samples for screen column x
ResampleBin(x, W, B) ==
  LET bin_f == f32_mul(f32_div(x, W - 1), B - 1)
      bin_i == f32_to_int(bin_f)
  IN IF bin_i >= B - 1 THEN B - 2 ELSE bin_i

\* the bin index of every screen column
StripBins(W, B) == [x \in 0 .. (W - 1) |-> ResampleBin(x, W, B)]

\* the history cells one strip of the pass reads: rows row0 and row1 of
\* depth slot d, both at the bin index of every screen column
StripReads(hd, d, D, B, W) ==
  LET row0 == row_at_age(hd, d, D)
      row1 == row_at_age(hd, d + 1, D)
      bin_i == StripBins(W, B)
  IN {row0 * B + bin_i[x] : x \in 0 .. (W - 1)}
     \cup {row1 * B + bin_i[x] : x \in 0 .. (W - 1)}

\* mutant of NeededFloats: one vertex per column instead of two
NeededFloats_OneVertex(D, W) == D * W * 7

\* size_t needed_floats = (size_t)D * (size_t)W * 2 * 7
NeededFloats(D, W) == D * W * 2 * 7

\* the render pass at rest, keeping the vertex buffer it owns
AtRest(r, ret) == [NoPass EXCEPT !.cap = r.cap, !.arg = r.arg, !.ret = ret]

\* mutant of RenderBegin: the widget height is not tested
RenderBegin_NoHeightGuard(w, h, err) ==
  /\ rp.pc = "idle"
  /\ IF st = "NULL" \/ err
     THEN /\ rp' = [rp EXCEPT !.arg = <<w, h, err>>, !.ret = "FALSE"]
          /\ UNCHANGED <<st, prog, histVars, trackVars, camVars, tickVars,
                         display_mutex, pcP, render_queued, before, mapVars>>
     ELSE /\ render_queued' = FALSE
          /\ rp' = IF prog = 0 \/ DOMAIN history = {} \/ bins <= 2 \/ depth <= 2
                      \/ w <= 2
                   THEN [rp EXCEPT !.arg = <<w, h, err>>, !.ret = "TRUE"]
                   ELSE [rp EXCEPT !.pc = "lock", !.W = w,
                                   !.arg = <<w, h, err>>, !.ret = "none"]
          /\ UNCHANGED <<st, prog, histVars, trackVars, camVars, tickVars,
                         display_mutex, pcP, before, mapVars>>

\* waterfall3dss_gl_render up to the mutex: w and h are the widget's
\* allocated size, err the GL area's error state
RenderBegin(w, h, err) ==
  /\ rp.pc = "idle"
  /\ IF st = "NULL" \/ err
     THEN /\ rp' = [rp EXCEPT !.arg = <<w, h, err>>, !.ret = "FALSE"]
          /\ UNCHANGED <<st, prog, histVars, trackVars, camVars, tickVars,
                         display_mutex, pcP, render_queued, before, mapVars>>
     ELSE /\ render_queued' = FALSE
          /\ rp' = IF prog = 0 \/ DOMAIN history = {} \/ bins <= 2 \/ depth <= 2
                      \/ w <= 2 \/ h <= 2
                   THEN [rp EXCEPT !.arg = <<w, h, err>>, !.ret = "TRUE"]
                   ELSE [rp EXCEPT !.pc = "lock", !.W = w,
                                   !.arg = <<w, h, err>>, !.ret = "none"]
          /\ UNCHANGED <<st, prog, histVars, trackVars, camVars, tickVars,
                         display_mutex, pcP, before, mapVars>>

\* g_mutex_lock in the render pass; D and B are read under the mutex and
\* the vertex buffer is grown to needed_floats
RenderLock ==
  /\ rp.pc = "lock"
  /\ display_mutex = "free"
  /\ display_mutex' = "renderer"
  /\ rp' = [rp EXCEPT !.pc = "strip", !.D = depth, !.B = bins, !.d = 0,
                      !.snap = Store,
                      !.needed = NeededFloats(depth, rp.W),
                      !.cap = IF rp.cap < NeededFloats(depth, rp.W)
                              THEN NeededFloats(depth, rp.W) ELSE rp.cap,
                      !.out = 0, !.strips = << >>, !.drawn = {}]
  /\ UNCHANGED <<st, prog, histVars, trackVars, camVars, tickVars, pcP,
                 render_queued, before, mapVars>>

\* one iteration of the loop over the depth slots: W columns, two vertices
\* of 7 floats per column
RenderStrip ==
  /\ rp.pc = "strip"
  /\ rp.d < rp.D - 1
  /\ rp' = [rp EXCEPT !.d = rp.d + 1,
                      !.reads = StripReads(head, rp.d, rp.D, rp.B, rp.W),
                      !.bin = StripBins(rp.W, rp.B),
                      !.out = rp.out + rp.W * 2 * 7,
                      !.strips = Append(rp.strips,
                                        [age0 |-> rp.d, age1 |-> rp.d + 1,
                                         row0 |-> row_at_age(head, rp.d, rp.D),
                                         row1 |-> row_at_age(head, rp.d + 1, rp.D),
                                         first |-> rp.out \div 7,
                                         verts |-> rp.W * 2])]
  /\ UNCHANGED <<st, prog, histVars, trackVars, camVars, tickVars,
                 display_mutex, pcP, render_queued, before, mapVars>>

\* glBufferData and the D - 1 glDrawArrays calls, each <<base, count>>
RenderDraw ==
  /\ rp.pc = "strip"
  /\ rp.d >= rp.D - 1
  /\ rp' = [rp EXCEPT !.pc = "drawn",
                      !.drawn = {<<s * (rp.W * 2), rp.W * 2>> : s \in 0 .. (rp.D - 2)}]
  /\ UNCHANGED <<st, prog, histVars, trackVars, camVars, tickVars,
                 display_mutex, pcP, render_queued, before, mapVars>>

\* mutant of RenderEnd: the pass returns without releasing the mutex
RenderEnd_KeepsMutex ==
  /\ rp.pc = "drawn"
  /\ rp' = AtRest(rp, "TRUE")
  /\ UNCHANGED <<st, prog, histVars, trackVars, camVars, tickVars,
                 display_mutex, pcP, render_queued, before, mapVars>>

\* g_mutex_unlock and return TRUE
RenderEnd ==
  /\ rp.pc = "drawn"
  /\ display_mutex' = "free"
  /\ rp' = AtRest(rp, "TRUE")
  /\ UNCHANGED <<st, prog, histVars, trackVars, camVars, tickVars, pcP,
                 render_queued, before, mapVars>>

(***************************************************************************)
(* SpecRender: the producer and the renderer interleaved.  The environment *)
(* resizes the widget, changes zoom and signal between ticks, and asks for *)
(* render passes at any time.                                              *)
(***************************************************************************)
MaxPass == 7
RenderWidths == {2, 3, 5}
RenderHeights == {2, 3}

Lock == ProducerLock(MaxPass)

Tick == ProducerTick({100}, {24}, {1}, {0}, {3, 4}, Signals)

Unlock == ProducerUnlock

Begin == \E w \in RenderWidths, h \in RenderHeights, err \in BOOLEAN :
           RenderBegin(w, h, err)

NextRender ==
  \/ Create \/ Realize
  \/ Lock \/ Tick \/ Unlock
  \/ Begin \/ RenderLock \/ RenderStrip \/ RenderDraw \/ RenderEnd

SpecRender == Init /\ [][NextRender]_vars

(***************************************************************************)
(* SpecPass: render passes over stores of many bin counts and widget       *)
(* sizes, without a producer.  The initial states are the states in which  *)
(* a render call can find the program: no state yet, the store after       *)
(* waterfall3dss_init (rx->pixels bins, all floor; no history when         *)
(* rx->pixels is 0), before or after a successful realize.                 *)
(***************************************************************************)
MaxBins == 8
MaxWidth == 8
PassBins == (2 .. MaxBins) \cup {23}
PassWidths == (2 .. MaxWidth) \cup {23}

PassStores ==
  {[st |-> "NULL", depth |-> 0, bins |-> 0, head |-> 0, history |-> << >>]}
  \cup
  {wf_reset_history([st |-> "alloc", depth |-> WATERFALL_DEPTH, bins |-> b,
                     head |-> 0, history |-> g_malloc0(WATERFALL_DEPTH * b)]) :
     b \in PassBins \cup {0}}

InitPass ==
  /\ \E S \in PassStores, realized \in BOOLEAN :
       /\ st = S.st /\ depth = S.depth /\ bins = S.bins /\ head = S.head
       /\ history = S.history
       /\ prog = IF realized /\ S.st = "alloc" THEN 1 ELSE 0
       /\ tilt_angle = IF realized /\ S.st = "alloc" THEN 2800 ELSE 0
       /\ zoom_level = IF realized /\ S.st = "alloc" THEN 2000 ELSE 0
       /\ render_queued = (realized /\ S.st = "alloc")
  /\ update_count = 0
  /\ waterfall_zoom = 0 /\ waterfall_pan = 0
  /\ dragging = FALSE
  /\ drag_start_y = 0 /\ drag_start_tilt = 0
  /\ waterfall_frequency = 0 /\ waterfall_sample_rate = 0
  /\ display_mutex = "free" /\ pcP = "idle" /\ rp = NoPass
  /\ inp = NoInput /\ did = NoTick /\ log = << >> /\ clean = FALSE
  /\ before = NoStore
  /\ levels = DefaultLevels /\ vertex = NoVertex /\ wf2 = No2D
  /\ retune = NoRetune

BeginPass == \E w \in PassWidths, h \in RenderHeights, err \in BOOLEAN :
               RenderBegin(w, h, err)

NextPass == BeginPass \/ RenderLock \/ RenderStrip \/ RenderDraw \/ RenderEnd

SpecPass == InitPass /\ [][NextPass]_vars

(***************************************************************************)
(* The colour/height mapper.  Its float values are computed as exact       *)
(* fractions <<n, d>> in lowest terms with d > 0: every constant of the    *)
(* mapper is a short decimal, and the comparisons the mapper makes fall on *)
(* the same side for the exact value and for its nearest float, except     *)
(* within half an ulp of the threshold, where both branches return black.  *)
(***************************************************************************)
RECURSIVE GCD(_, _)
GCD(a, b) == IF b = 0 THEN a ELSE GCD(b, a % b)

Rat(n, d) ==
  LET g == GCD(Abs(n), Abs(d))
      sgn == IF d < 0 THEN -1 ELSE 1
  IN <<(sgn * n) \div g, (sgn * d) \div g>>

Zero == <<0, 1>>
One == <<1, 1>>

RAdd(x, y) == Rat(x[1] * y[2] + y[1] * x[2], x[2] * y[2])
RSub(x, y) == Rat(x[1] * y[2] - y[1] * x[2], x[2] * y[2])
RMul(x, y) == Rat(x[1] * y[1], x[2] * y[2])
RDiv(x, y) == Rat(x[1] * y[2], x[2] * y[1])
RLt(x, y) == x[1] * y[2] < y[1] * x[2]
RLe(x, y) == x[1] * y[2] <= y[1] * x[2]

\* clampf(x, 0.0f, 1.0f)
RClamp01(x) == IF RLt(x, Zero) THEN Zero ELSE IF RLt(One, x) THEN One ELSE x

\* const float noise_threshold = 0.35f
noise_threshold == Rat(35, 100)

\* the white -> blue -> lilac -> red ramp of palette 6
PlasmaRamp(q) ==
  IF RLt(q, Rat(33, 100))
  THEN LET t == RDiv(q, Rat(33, 100))
       IN <<RSub(One, RMul(t, Rat(8, 10))), RSub(One, RMul(t, Rat(6, 10))), One>>
  ELSE IF RLt(q, Rat(66, 100))
  THEN LET t == RDiv(RSub(q, Rat(33, 100)), Rat(33, 100))
       IN <<RAdd(Rat(2, 10), RMul(t, Rat(5, 10))),
            RAdd(Rat(4, 10), RMul(t, Rat(1, 10))), One>>
  ELSE LET t == RDiv(RSub(q, Rat(66, 100)), Rat(34, 100))
       IN <<RAdd(Rat(7, 10), RMul(t, Rat(3, 10))),
            RSub(Rat(5, 10), RMul(t, Rat(5, 10))), RSub(One, t)>>

\* color_from_palette: <<r, g, b>> of level p0 in the palette
color_from_palette(palette, p0) ==
  LET q == RClamp01(p0)
      quarter == Rat(25, 100)
  IN CASE palette = 0 ->
            IF RLt(q, quarter) THEN <<Zero, RDiv(q, quarter), One>>
            ELSE IF RLt(q, Rat(50, 100))
            THEN <<Zero, One, RSub(One, RDiv(RSub(q, quarter), quarter))>>
            ELSE IF RLt(q, Rat(75, 100))
            THEN <<RDiv(RSub(q, Rat(50, 100)), quarter), One, Zero>>
            ELSE <<One,
                   RSub(One, RMul(RDiv(RSub(q, Rat(75, 100)), quarter), Rat(5, 10))),
                   Zero>>
       [] palette = 1 ->
            <<RMul(q, Rat(3, 10)), RAdd(Rat(5, 10), RMul(q, Rat(5, 10))),
              RAdd(Rat(7, 10), RMul(q, Rat(3, 10)))>>
       [] palette = 2 ->
            <<RMul(q, Rat(2, 10)), RAdd(Rat(3, 10), RMul(q, Rat(7, 10))),
              RMul(q, Rat(1, 10))>>
       [] palette = 3 -> <<q, q, q>>
       [] palette = 4 ->
            IF RLt(q, Rat(33, 100)) THEN <<RDiv(q, Rat(33, 100)), Zero, Zero>>
            ELSE IF RLt(q, Rat(66, 100))
            THEN <<One, RDiv(RSub(q, Rat(33, 100)), Rat(33, 100)), Zero>>
            ELSE <<One, One, RDiv(RSub(q, Rat(66, 100)), Rat(34, 100))>>
       [] palette = 5 ->
            <<q, RSub(One, RMul(q, Rat(5, 10))), RSub(One, RMul(q, Rat(5, 10)))>>
       [] palette = 6 -> PlasmaRamp(q)
       [] OTHER -> <<q, q, q>>

\* the colour of full signal at distance dist01: the plasma ramp for palette
\* 6, else white (near) fading to the palette's top colour (far)
BaseColor(palette, dist01) ==
  IF palette = 6
  THEN PlasmaRamp(dist01)
  ELSE LET target == color_from_palette(palette, One)
       IN [c \in 1 .. 3 |-> RAdd(One, RMul(dist01, RSub(target[c], One)))]

RECURSIVE SumRow(_, _)
SumRow(row, n) == IF n = 0 THEN 0 ELSE row[n] + SumRow(row, n - 1)

\* soffset of the 2D waterfall with no attenuation, preamp or calibration
soffset == Zero

\* wf_low of the 2D waterfall in automatic mode: the mean of the row plus
\* soffset minus 5 dB
AutomaticLow(row) ==
  RSub(RAdd(Rat(SumRow(row, Len(row)), Len(row)), soffset), Rat(5, 1))

\* wf_high of the 2D waterfall in automatic mode
AutomaticHigh(row) == RAdd(AutomaticLow(row), Rat(55, 1))

\* mutant of sample_to_color: the height is not clamped to 1
sample_to_color_NoHeightClamp(lv, sample_db, dist01) ==
  LET db_min == lv.low
      db_max == lv.high
      p == RClamp01(Rat(sample_db - db_min, db_max - db_min))
      lin == RDiv(RSub(p, noise_threshold), RSub(One, noise_threshold))
      signal == RMul(lin, lin)
      base == BaseColor(lv.palette, dist01)
  IN IF RLt(p, noise_threshold)
     THEN [db_min |-> db_min, db_max |-> db_max, p |-> p,
           r |-> Zero, g |-> Zero, b |-> Zero, a |-> One, h01 |-> Zero]
     ELSE [db_min |-> db_min, db_max |-> db_max, p |-> p,
           r |-> RMul(base[1], signal), g |-> RMul(base[2], signal),
           b |-> RMul(base[3], signal), a |-> One,
           h01 |-> RMul(signal, Rat(18, 10))]

\* sample_to_color: the bounds it uses, the level p and the outputs
sample_to_color(lv, sample_db, dist01) ==
  LET db_min == lv.low
      db_max == lv.high
      p == RClamp01(Rat(sample_db - db_min, db_max - db_min))
      lin == RDiv(RSub(p, noise_threshold), RSub(One, noise_threshold))
      signal == RMul(lin, lin)
      base == BaseColor(lv.palette, dist01)
  IN IF RLt(p, noise_threshold)
     THEN [db_min |-> db_min, db_max |-> db_max, p |-> p,
           r |-> Zero, g |-> Zero, b |-> Zero, a |-> One, h01 |-> Zero]
     ELSE [db_min |-> db_min, db_max |-> db_max, p |-> p,
           r |-> RMul(base[1], signal), g |-> RMul(base[2], signal),
           b |-> RMul(base[3], signal), a |-> One,
           h01 |-> RClamp01(RMul(signal, Rat(18, 10)))]

(***************************************************************************)
(* SpecColor: the mapper applied to samples of rows, at every age of the   *)
(* ring, under the levels and palette the display menu has configured.     *)
(***************************************************************************)
LevelPairs == {<<-100, -40>>, <<-120, -100>>, <<-41, -40>>}
ColorSamples == {-130, -113, -110, -100, -90, -79, -60, -40, -20}
ColorRows == {<<x, y>> : x \in ColorSamples, y \in {-110}}
Palettes == 0 .. 6

\* the display menu: low, high, automatic mode and palette; vertex keeps
\* only calls made under the current configuration
Configure ==
  /\ \E lh \in LevelPairs, auto \in {0, 1}, pal \in Palettes :
       levels' = [low |-> lh[1], high |-> lh[2], automatic |-> auto,
                  palette |-> pal]
  /\ vertex' = NoVertex
  /\ UNCHANGED <<st, prog, histVars, trackVars, camVars, tickVars, procVars,
                 render_queued, before, wf2, retune>>

\* one call of sample_to_color from the strip loop: sample i of a row, at
\* depth slot age of WATERFALL_DEPTH
MapSample ==
  /\ \E row \in ColorRows, i \in 1 .. 2, age \in 0 .. (WATERFALL_DEPTH - 1) :
       LET dist01 == Rat(age, WATERFALL_DEPTH - 1)
           out == sample_to_color(levels, row[i], dist01)
       IN vertex' = [lv |-> levels, row |-> row, sample |-> row[i], age |-> age,
                     dist01 |-> dist01, db_min |-> out.db_min,
                     db_max |-> out.db_max, p |-> out.p,
                     r |-> out.r, g |-> out.g, b |-> out.b, a |-> out.a,
                     h01 |-> out.h01]
  /\ UNCHANGED <<st, prog, histVars, trackVars, camVars, tickVars, procVars,
                 render_queued, before, levels, wf2, retune>>

NextColor == Configure \/ MapSample

SpecColor == Init /\ [][NextColor]_vars

(***************************************************************************)
(* The 2D waterfall (waterfall.c).  A pixel of the pixbuf is kept as the   *)
(* sample it was coloured from, 0 for a black (cleared) pixel.  wf2.kind   *)
(* tells what the last update did: "init" (frequency not set, sample rate  *)
(* or zoom changed), "reinit" (shift of the whole width or more), "shift"  *)
(* (the shift branch, by wf2.rotate_pixels pixels) or "same".              *)
(***************************************************************************)
\* lround(n / d) for d > 0: the nearest integer, halves away from zero
lround(n, d) ==
  IF n >= 0 THEN (2 * n + d) \div (2 * d) ELSE -((2 * (-n) + d) \div (2 * d))

\* rotfreq = (int)((double)(waterfall_frequency - vfofreq) / hz_per_pixel)
\* with hz_per_pixel = sample_rate / (my_width * zoom)
RotFreq(wf, vfofreq, sr, w, z) == TruncDiv((wf - vfofreq) * (w * z), sr)

\* mutant of ShiftedFrequency: the VFO frequency is adopted after a shift
ShiftedFrequency_Adopt(wf, vfofreq, rotfreq, sr, w, z) == vfofreq

\* rx->waterfall_frequency -= lround(rotfreq * hz_per_pixel), if rotfreq != 0
ShiftedFrequency(wf, vfofreq, rotfreq, sr, w, z) ==
  IF rotfreq # 0 THEN wf - lround(rotfreq * sr, w * z) ELSE wf

\* memset(pixels, 0, my_width * my_height * 3)
BlackImage(w, h) == [j \in 0 .. (w * h - 1) |-> 0]

\* the image shifted by rot pixels (|rot| < w): one memmove over the whole
\* image, then |rot| pixels of every row cleared
ShiftImage(px, w, h, rot) ==
  IF rot < 0
  THEN [j \in 0 .. (w * h - 1) |->
          IF j % w >= w + rot THEN 0
          ELSE IF j < w * h + rot THEN px[j - rot] ELSE px[j]]
  ELSE IF rot > 0
  THEN [j \in 0 .. (w * h - 1) |->
          IF j % w < rot THEN 0
          ELSE IF j >= rot THEN px[j - rot] ELSE px[j]]
  ELSE px

\* the image scrolled down by one row and the new row drawn at the top
ScrollAndDraw(px, w, h, pan, samples) ==
  [j \in 0 .. (w * h - 1) |->
     IF j < w THEN ReadSample(samples, j + pan) ELSE px[j - w]]

\* waterfall_configure_event_cb: a new, black pixbuf of the widget's size
waterfall_configure_event_cb(w, h) ==
  /\ wf2' = [wf2 EXCEPT !.pixbuf = "alloc", !.w = w, !.h = h,
                        !.pixels = BlackImage(w, h), !.kind = "none",
                        !.drawn = FALSE]
  /\ UNCHANGED <<st, prog, histVars, trackVars, camVars, tickVars, procVars,
                 render_queued, before, levels, vertex, retune>>

\* waterfall_update in 2D mode, with the VFO frequency, sample rate, zoom,
\* pan and samples of this tick
waterfall_update(vfofreq, sr, z, pan, s) ==
  LET w == wf2.w
      h == wf2.h
      tracked == waterfall_frequency # 0 /\ sr = waterfall_sample_rate
                 /\ z = wf2.zoom
      changed == waterfall_frequency # vfofreq \/ wf2.pan # pan
      rotfreq == RotFreq(waterfall_frequency, vfofreq, sr, w, z)
      rotpan == wf2.pan - pan
      rot == rotfreq + rotpan
      kind == IF ~tracked THEN "init"
              ELSE IF ~changed THEN "same"
              ELSE IF rot >= w \/ rot <= -w THEN "reinit" ELSE "shift"
      px1 == IF kind \in {"init", "reinit"} THEN BlackImage(w, h)
             ELSE IF kind = "shift" THEN ShiftImage(wf2.pixels, w, h, rot)
             ELSE wf2.pixels
      freq_changed == kind = "shift" /\ rotfreq # 0
      px2 == IF freq_changed THEN px1
             ELSE ScrollAndDraw(px1, w, h, pan, pixel_samples(s))
  IN IF wf2.pixbuf = "NULL"
     THEN UNCHANGED vars
     ELSE /\ waterfall_frequency' =
               (IF kind \in {"init", "reinit"} THEN vfofreq
                ELSE IF kind = "shift"
                THEN ShiftedFrequency(waterfall_frequency, vfofreq, rotfreq, sr, w, z)
                ELSE waterfall_frequency)
          /\ waterfall_sample_rate' =
               (IF kind = "init" THEN sr ELSE waterfall_sample_rate)
          /\ wf2' = [wf2 EXCEPT
                       !.zoom = (IF kind = "init" THEN z ELSE wf2.zoom),
                       !.pan = (IF kind = "same" THEN wf2.pan ELSE pan),
                       !.pixels = px2,
                       !.kind = kind, !.vfo = vfofreq, !.sr = sr, !.z = z,
                       !.old = waterfall_frequency,
                       !.rotfreq = (IF tracked /\ changed THEN rotfreq ELSE 0),
                       !.rotate_pixels = (IF tracked /\ changed THEN rot ELSE 0),
                       !.drawn = ~freq_changed]
          /\ UNCHANGED <<st, prog, histVars, waterfall_zoom, waterfall_pan,
                         camVars, tickVars, procVars, render_queued, before,
                         levels, vertex, retune>>

(***************************************************************************)
(* Spec2D: the 2D waterfall under small and large retunes, pan, zoom and   *)
(* sample-rate changes.  At width 3 a pixel is 4 Hz at zoom 1 and 2 Hz at  *)
(* zoom 2 for sample rate 12.                                              *)
(***************************************************************************)
Freqs2D == {100, 101, 103, 104, 130}
Rates2D == {12, 24}
Width2D == 3
Height2D == 2

Configure2D == waterfall_configure_event_cb(Width2D, Height2D)

Tick2D == \E f \in Freqs2D, sr \in Rates2D, z \in Zooms, p \in Pans :
            waterfall_update(f, sr, z, p, 1)

Next2D == Configure2D \/ Tick2D

Spec2D == Init /\ [][Next2D]_vars

(***************************************************************************)
(* SpecLive: one producer and one renderer contending for the display      *)
(* mutex, with the fairness of two running threads: a thread that can take *)
(* its next step eventually takes it, and a thread blocked in g_mutex_lock *)
(* gets the mutex if it is released again and again.                       *)
(***************************************************************************)
MaxLive == 2

LockLive == ProducerLock(MaxLive)

TickLive == ProducerTick({100}, {24}, {1}, {0}, {3}, {1})

BeginLive == \E err \in BOOLEAN : RenderBegin(3, 3, err)

NextLive ==
  \/ Create \/ Realize
  \/ LockLive \/ TickLive \/ Unlock
  \/ BeginLive \/ RenderLock \/ RenderStrip \/ RenderDraw \/ RenderEnd

SpecLive ==
  /\ Init /\ [][NextLive]_vars
  /\ SF_vars(LockLive) /\ WF_vars(TickLive) /\ WF_vars(Unlock)
  /\ WF_vars(RenderLock) /\ WF_vars(RenderStrip) /\ WF_vars(RenderDraw)
  /\ WF_vars(RenderEnd)

(***************************************************************************)
(* Vocabulary of the claims.  An update tick here is a call of             *)
(* waterfall3dss_update that passes its entry guards (state and history    *)
(* allocated, width above 2): it is the step that increments update_count. *)
(***************************************************************************)
TickStep == update_count' = update_count + 1

\* every cell of the store h (b columns, D rows) outside the rows keep is floor
AllFloorExcept(h, b, D, keep) ==
  \A j \in 0 .. (D * b - 1) : (j \div b) \in keep \/ h[j] = FLOOR_DB

\* a state whose history is floor everywhere
AllFloor == AllFloorExcept(history, bins, depth, {})

\* the tick ended on a store that was fully reset before its row was written:
\* head restarted at 0 and only the tick's own row, if one was written, is
\* not floor
ResetOutcome ==
  /\ DOMAIN history' = 0 .. (depth' * bins' - 1)
  /\ IF did'.pushed
     THEN head' = 1 /\ AllFloorExcept(history', bins', depth', {0})
     ELSE head' = 0 /\ AllFloorExcept(history', bins', depth', {})

\* cell i of row r of the store h shifted by k bins, floor where vacated
Shifted(h, b, r, i, k) ==
  IF i - k >= 0 /\ i - k < b THEN h[r * b + i - k] ELSE FLOOR_DB

\* the tick kept the store and shifted every row it did not overwrite by k
RotatedOutcome(k) ==
  /\ bins' = bins /\ depth' = depth
  /\ head' = (IF did'.pushed THEN (head + 1) % depth ELSE head)
  /\ \A r \in 0 .. (depth - 1) :
       \/ did'.pushed /\ r = head
       \/ \A i \in 0 .. (bins - 1) :
            history'[r * bins + i] = Shifted(history, bins, r, i, k)

(***************************************************************************)
(* C1.  From a freshly reset history, after n pushes with no reset, resize *)
(* or rotation in between, head = n mod depth, the row at age d < min(n,   *)
(* depth) is the (n-d)-th pushed row and the rows at the older ages are     *)
(* still floor.  (Checked under SpecRing.)                                 *)
(***************************************************************************)
C1_RingAfterPushes ==
  (st = "alloc" /\ DOMAIN history # {} /\ clean) =>
    LET n == Len(log)
    IN /\ head = n % depth
       /\ \A d \in 0 .. (depth - 1) :
            RowOf(history, bins, row_at_age(head, d, depth)) =
              (IF d < Min(n, depth) THEN log[n - d] ELSE FloorRow(bins))

\* more rows pushed than the ring holds, the two newest of them different
C1_Witness ==
  /\ st = "alloc" /\ clean /\ Len(log) > depth
  /\ log[Len(log)] # log[Len(log) - 1]
  /\ log[1] # FloorRow(bins)

(***************************************************************************)
(* C2.  A tick that rotates by k bins (0 < |k| < bins) leaves, in every    *)
(* row, cell i holding the pre-rotation value of cell i-k and the |k|      *)
(* vacated cells at floor; head, bins and depth are as before the          *)
(* rotation.  The tick's own row is written after the rotation, so the     *)
(* row at the old head is exempt when the tick pushes; when the same tick  *)
(* reset the store before rotating, the rotated rows are the floor rows.   *)
(***************************************************************************)
C2_RotationShiftsRows ==
  [][ (TickStep /\ did'.freq = "rotate" /\ did'.k # 0 /\ Abs(did'.k) < bins')
        => IF did'.zoomReset \/ did'.resized
           THEN ResetOutcome
           ELSE RotatedOutcome(did'.k) ]_vars

\* a tick rotated by two bins a store that holds a pushed row, and pushed
C2_Witness ==
  /\ did.kind = "tick" /\ did.freq = "rotate" /\ Abs(did.k) = 2
  /\ ~did.zoomReset /\ ~did.resized /\ did.pushed
  /\ \E i \in 0 .. (bins - 1) :
       history[row_at_age(head, 1, depth) * bins + i] # FLOOR_DB

(***************************************************************************)
(* C3.  On a tick whose sample rate differs from the last-known one, or    *)
(* with no frequency recorded, or whose zoom differs from the last-known   *)
(* one, the history is fully reset before the tick's row is written, and   *)
(* afterwards the last-known frequency, sample rate and zoom are the       *)
(* current ones.                                                           *)
(***************************************************************************)
C3_ResetOnRateFirstZoom ==
  [][ (TickStep /\ (\/ inp'.sr # waterfall_sample_rate
                    \/ waterfall_frequency = 0
                    \/ inp'.z # waterfall_zoom))
        => /\ ResetOutcome
           /\ waterfall_frequency' = inp'.f
           /\ waterfall_sample_rate' = inp'.sr
           /\ waterfall_zoom' = inp'.z ]_vars

\* a tick changed the sample rate of a store that held a pushed row
C3_Witness ==
  /\ did.kind = "tick" /\ did.freq = "reset" /\ ~did.zoomReset /\ ~did.resized
  /\ did.pushed /\ update_count > STABILIZE
  /\ head = 1 /\ waterfall_sample_rate = inp.sr

(***************************************************************************)
(* C4.  On a tick with unchanged sample rate and zoom, a retune of more    *)
(* than half the sample rate resets the history; a nonzero retune of at    *)
(* most half the sample rate (exactly half included) does not reset: the   *)
(* rows are rotated.                                                       *)
(***************************************************************************)
\* the claim as stated: whatever the widget width of the tick
C4_AsStated ==
  [][ (TickStep /\ inp'.sr = waterfall_sample_rate /\ inp'.z = waterfall_zoom)
        => /\ (2 * Abs(inp'.f - waterfall_frequency) > inp'.sr) => ResetOutcome
           /\ (/\ inp'.f # waterfall_frequency
               /\ 2 * Abs(inp'.f - waterfall_frequency) <= inp'.sr)
                => RotatedOutcome(did'.k) ]_vars

\* C4 as amended: the rows survive, rotated, when the bin count of the tick
\* is the store's bin count as well
C4_ResetBeyondHalfRate ==
  [][ (TickStep /\ inp'.sr = waterfall_sample_rate /\ inp'.z = waterfall_zoom)
        => /\ (2 * Abs(inp'.f - waterfall_frequency) > inp'.sr) => ResetOutcome
           /\ (/\ inp'.f # waterfall_frequency
               /\ 2 * Abs(inp'.f - waterfall_frequency) <= inp'.sr
               /\ EffectiveBins(inp'.w) = bins)
                => RotatedOutcome(did'.k) ]_vars

\* a retune of exactly half the sample rate (two of four bins at 12 Hz)
\* rotated a store that holds a pushed row
C4_Witness ==
  /\ did.kind = "tick" /\ did.freq = "rotate" /\ Abs(did.k) = 2
  /\ bins = 4 /\ inp.sr = 12 /\ ~did.zoomReset /\ ~did.resized
  /\ update_count > STABILIZE
  /\ history[row_at_age(head, 1, depth) * bins + 2] # FLOOR_DB

(***************************************************************************)
(* C7.  A tick whose bin count (the widget width) differs from the store's *)
(* replaces the store by one of depth*newBins cells, all floor, head 0, so *)
(* that only the tick's own row can be non-floor afterwards; and the       *)
(* allocated store always has exactly depth*bins cells.                    *)
(***************************************************************************)
C7_ResizeReplacesStore ==
  /\ [](st = "alloc" => DOMAIN history = 0 .. (depth * bins - 1))
  /\ [][ (TickStep /\ EffectiveBins(inp'.w) # bins)
           => /\ bins' = EffectiveBins(inp'.w)
              /\ depth' = depth
              /\ ResetOutcome ]_vars

\* a tick resized a store that held a pushed row, nothing else changing
C7_Witness ==
  /\ did.kind = "tick" /\ did.resized /\ ~did.zoomReset /\ did.freq = "same"
  /\ update_count > STABILIZE /\ head = 1 /\ bins = EffectiveBins(inp.w)

(***************************************************************************)
(* C5: the producer's update tick and the renderer's read pass over the    *)
(* history never overlap: the producer is inside its locked section only   *)
(* while it holds the display mutex, the renderer is inside its pass only  *)
(* while it holds it, and during a pass head, bins and every history cell  *)
(* are what they were when the pass took the mutex.                        *)
(***************************************************************************)
\* the renderer is between its g_mutex_lock and its g_mutex_unlock
InPass == rp.pc \in {"strip", "drawn"}

C5_TickAndPassExclusive ==
  /\ pcP \in {"locked", "updated"} => display_mutex = "producer"
  /\ InPass => display_mutex = "renderer"
  /\ ~(pcP \in {"locked", "updated"} /\ InPass)
  /\ InPass =>
       /\ head = rp.snap.head /\ bins = rp.snap.bins /\ depth = rp.snap.depth
       /\ history = rp.snap.history

\* a pass is past its first strip over a history that holds a pushed row,
\* while the producer still has ticks to deliver
C5_Witness ==
  /\ rp.pc = "strip" /\ rp.d >= 1
  /\ did.pushed /\ update_count < MaxPass
  /\ pcP = "idle"

(***************************************************************************)
(* C6: wf_reset_history on an allocated store leaves every one of the      *)
(* depth*bins cells at the floor value and the head at 0, with bins and    *)
(* depth as they were; on a missing state or an unallocated history it     *)
(* changes nothing.                                                        *)
(***************************************************************************)
C6_ResetFloorsStore ==
  before.st # "none" =>
    IF before.st = "alloc" /\ DOMAIN before.history # {}
    THEN /\ st = "alloc" /\ head = 0
         /\ depth = before.depth /\ bins = before.bins
         /\ DOMAIN history = 0 .. (depth * bins - 1)
         /\ \A i \in DOMAIN history : history[i] = FLOOR_DB
    ELSE /\ st = before.st /\ head = before.head
         /\ depth = before.depth /\ bins = before.bins
         /\ DOMAIN history = {}

\* the reset acted on a store whose head was at the last row and whose
\* first cell was written
C6_Witness ==
  /\ before.st = "alloc" /\ DOMAIN before.history # {}
  /\ before.head = WATERFALL_DEPTH - 1
  /\ before.history[0] # FLOOR_DB
  /\ head = 0 /\ history[0] = FLOOR_DB

(***************************************************************************)
(* C8: once the realize handler has initialised the controls, the tilt is  *)
(* within [0, 5] and the zoom distance within [1, 4] (in thousandths)      *)
(* after any sequence of button, motion and scroll events.                 *)
(***************************************************************************)
C8_CameraWithinLimits ==
  prog # 0 =>
    /\ 0 <= tilt_angle /\ tilt_angle <= TILT_MAX
    /\ ZOOM_MIN <= zoom_level /\ zoom_level <= ZOOM_MAX

\* a drag pulled the tilt to its lower limit and scrolling pushed the zoom
\* to its upper limit
C8_Witness ==
  /\ prog # 0
  /\ tilt_angle = 0 /\ drag_start_tilt > 0
  /\ zoom_level = ZOOM_MAX

(***************************************************************************)
(* C9: among the pointer events the dragging flag changes only from idle   *)
(* to dragging on a primary-button press, which records the pointer y and  *)
(* the tilt of that moment, and from dragging to idle on a primary-button  *)
(* release.  Other buttons, pointer moves and scroll events leave the flag *)
(* alone; a pointer move while idle changes nothing; a scroll event leaves *)
(* the tilt and the recorded drag start alone.                             *)
(***************************************************************************)
UIEvent == Press \/ Motion \/ Release \/ Scroll

C9_DragStateMachine ==
  [][/\ (UIEvent /\ ~dragging /\ dragging') =>
          \E y \in Ys : /\ waterfall3dss_button_press(1, y)
                        /\ drag_start_y' = y
                        /\ drag_start_tilt' = tilt_angle
     /\ (UIEvent /\ dragging /\ ~dragging') => waterfall3dss_button_release(1)
     /\ \A b \in Buttons \ {1} :
          ((\E y \in Ys : waterfall3dss_button_press(b, y))
             \/ waterfall3dss_button_release(b)) => dragging' = dragging
     /\ (Motion \/ Scroll) => dragging' = dragging
     /\ (Motion /\ ~dragging) => UNCHANGED vars
     /\ Scroll => UNCHANGED <<tilt_angle, drag_start_y, drag_start_tilt>>
    ]_vars

\* a drag that started at the default tilt was moved to the lower limit
\* and released
C9_Witness ==
  /\ ~dragging
  /\ drag_start_y = 100000 /\ drag_start_tilt = 2800
  /\ tilt_angle = 0

(***************************************************************************)
(* C10: the head is always a row of the store, every row the renderer      *)
(* addresses in a pass (depth slots d and d + 1 for d from 0 to depth - 2) *)
(* is a row of the store, and no cell a render pass read or the next push  *)
(* writes lies outside the depth*bins cells.                               *)
(***************************************************************************)
C10_IndicesInRange ==
  st = "alloc" =>
    /\ 0 <= head /\ head < depth
    /\ \A d \in 0 .. (depth - 2) :
         /\ row_at_age(head, d, depth) \in 0 .. (depth - 1)
         /\ row_at_age(head, d + 1, depth) \in 0 .. (depth - 1)
    /\ rp.reads \subseteq DOMAIN history
    /\ DOMAIN history # {} =>
         \A i \in 0 .. (bins - 1) : (head * bins + i) \in DOMAIN history

\* a pass read its last strip after the head had wrapped round to row 0
C10_Witness ==
  /\ rp.pc = "strip" /\ rp.d = rp.D - 1
  /\ rp.reads # {}
  /\ head = 0 /\ did.pushed

(***************************************************************************)
(* C11: for every width W > 2 and bin count B > 2 the bin index of every   *)
(* column is in [0, B-2], column 0 maps to bin 0, column W-1 to bin B-2,   *)
(* the mapping is non-decreasing, and both rows of a strip are read at the *)
(* same bin index.  As stated the index is floor(x*(B-1)/(W-1)) clamped to *)
(* B-2; the code evaluates x/(W-1)*(B-1) in single precision, which is     *)
(* that value or one less.                                                 *)
(***************************************************************************)
ExactBin(x, W, B) == Min((x * (B - 1)) \div (W - 1), B - 2)

LastStrip == rp.strips[Len(rp.strips)]

BinProperties ==
  /\ \A x \in 0 .. (rp.W - 1) : 0 <= rp.bin[x] /\ rp.bin[x] <= rp.B - 2
  /\ rp.bin[0] = 0
  /\ rp.bin[rp.W - 1] = rp.B - 2
  /\ \A x1, x2 \in 0 .. (rp.W - 1) : x1 < x2 => rp.bin[x1] <= rp.bin[x2]
  /\ rp.reads = {LastStrip.row0 * rp.B + rp.bin[x] : x \in 0 .. (rp.W - 1)}
                \cup {LastStrip.row1 * rp.B + rp.bin[x] : x \in 0 .. (rp.W - 1)}

\* the claim as stated: the index is the exact floor
C11_AsStated ==
  DOMAIN rp.bin # {} =>
    /\ \A x \in 0 .. (rp.W - 1) : rp.bin[x] = ExactBin(x, rp.W, rp.B)
    /\ BinProperties

\* the amended claim: the index is the exact floor or one less
C11_ResamplerMonotone ==
  DOMAIN rp.bin # {} =>
    /\ \A x \in 0 .. (rp.W - 1) :
         rp.bin[x] \in {ExactBin(x, rp.W, rp.B) - 1, ExactBin(x, rp.W, rp.B)}
    /\ BinProperties

\* a strip was resampled from 23 bins to 23 columns, where column 13 reads
\* bin 12
C11_Witness ==
  /\ DOMAIN rp.bin # {}
  /\ rp.W = 23 /\ rp.B = 23
  /\ rp.bin[13] = 12

(***************************************************************************)
(* C12: a tick that pushes a row stores, at every column i of the row,     *)
(* pixel_samples[i + pan] if 0 <= i + pan < pixels_total and the floor     *)
(* value otherwise, and reads the source array only at indices in          *)
(* [0, pixels_total), whatever the pan and the bin count.                  *)
(***************************************************************************)
C12_PushedRowWithinSource ==
  [][(TickStep /\ did'.pushed) =>
       /\ \A i \in 0 .. (bins' - 1) :
            RowOf(history', bins', row_at_age(head', 0, depth'))[i] =
              IF 0 <= i + inp'.p /\ i + inp'.p < Pixels
              THEN pixel_samples(inp'.s)[i + inp'.p]
              ELSE FLOOR_DB
       /\ did'.src \subseteq 0 .. (Pixels - 1)
    ]_vars

\* a row was pushed with a pan of 2 into a store wider than the source, so
\* that its first cells are samples and its last cells are floor
C12_Witness ==
  /\ did.pushed /\ inp.p = 2 /\ bins > Pixels
  /\ did.src # {}
  /\ history[0] = pixel_samples(inp.s)[2]
  /\ history[bins - 1] = FLOOR_DB

(***************************************************************************)
(* C13: a render call is skipped entirely (it does not take the display    *)
(* mutex, reads no history cell, writes no vertex and issues no draw) when *)
(* the state is missing, the shader program or the history is not          *)
(* allocated, or bins, depth, widget width or widget height is <= 2.  As   *)
(* stated, every other call runs to completion; in the code a call that    *)
(* finds the GL area in error is skipped too, and every call that is not   *)
(* skipped runs to completion against the head it found at the lock.       *)
(***************************************************************************)
\* a step of waterfall3dss_gl_render from its entry to a return or to the lock
BeginStep == rp.pc = "idle" /\ rp' # rp

Degenerate ==
  \/ st = "NULL" \/ prog = 0 \/ DOMAIN history = {}
  \/ bins <= 2 \/ depth <= 2
  \/ rp'.arg[1] <= 2 \/ rp'.arg[2] <= 2

SkippedEntirely ==
  /\ rp'.pc = "idle" /\ display_mutex' = display_mutex
  /\ rp'.reads = {} /\ rp'.out = 0 /\ rp'.drawn = {}

\* a call that passed the guards returns only after all its strips and
\* draws, with the head it found at the lock
RunsToCompletion ==
  (rp.pc # "idle" /\ rp'.pc = "idle") =>
     /\ rp.pc = "drawn"
     /\ Len(rp.strips) = rp.D - 1
     /\ Cardinality(rp.drawn) = rp.D - 1
     /\ head = rp.snap.head /\ display_mutex' = "free"

\* the claim as stated
C13_AsStated ==
  [][/\ BeginStep => IF Degenerate THEN SkippedEntirely ELSE rp'.pc = "lock"
     /\ RunsToCompletion]_vars

\* the amended claim
C13_SkippedOrCompleted ==
  [][/\ BeginStep => IF Degenerate \/ rp'.arg[3] THEN SkippedEntirely
                     ELSE rp'.pc = "lock"
     /\ RunsToCompletion]_vars

\* a call was skipped for its height alone, after a call that completed
C13_Witness ==
  /\ rp.pc = "idle" /\ rp.ret = "TRUE"
  /\ rp.arg[1] > 2 /\ rp.arg[2] <= 2 /\ ~rp.arg[3]
  /\ rp.cap > 0 /\ display_mutex = "free"

(***************************************************************************)
(* C14: the stabilisation window.  As stated, a tick inside the window     *)
(* writes its row at head and advances head but requests no redraw, and    *)
(* only later ticks request one.  In the code a tick inside the window     *)
(* (update_count below 5 after its increment) requests a redraw and        *)
(* returns before the copy, so the history stays all floor with head 0;    *)
(* a later tick writes its row at head, advances head and requests a       *)
(* redraw.                                                                 *)
(***************************************************************************)
\* the tick reset the store before its copy
TickReset == did'.zoomReset \/ did'.resized \/ did'.freq = "reset"

\* the claim as stated
C14_AsStated ==
  [][TickStep =>
       IF update_count' < STABILIZE
       THEN /\ did'.pushed /\ ~did'.queued
            /\ head' = (IF TickReset THEN 1 ELSE CMod(head + 1, depth))
       ELSE did'.queued
    ]_vars

\* the amended claim
C14_WindowSkipsRowNotRedraw ==
  [][TickStep =>
       /\ did'.queued /\ render_queued'
       /\ IF update_count' < STABILIZE
          THEN /\ ~did'.pushed
               /\ head' = 0
               /\ AllFloorExcept(history', bins', depth', {})
          ELSE /\ did'.pushed
               /\ head' = (IF TickReset THEN 1 ELSE CMod(head + 1, depth))
               /\ RowOf(history', bins', row_at_age(head', 0, depth')) =
                    PushedRow(bins', inp'.p, pixel_samples(inp'.s), Pixels)
    ]_vars

\* the last tick of the window has requested a redraw and left the store
\* untouched
C14_Witness ==
  /\ did.kind = "tick" /\ update_count = STABILIZE - 1
  /\ did.queued /\ render_queued /\ ~did.pushed
  /\ head = 0 /\ AllFloor

(***************************************************************************)
(* C15: as stated, the stabilisation window restarts after every reset     *)
(* (zoom change, sample-rate change, out-of-band frequency jump) and every *)
(* resize, so that the tick after a resetting tick is a stabilisation tick *)
(* again.  In the code the update counter is zeroed when the state is      *)
(* created and only ever incremented, so a tick is a stabilisation tick    *)
(* exactly when it is one of the first ticks after creation, whether or    *)
(* not it or the tick before it reset or resized the store.                *)
(***************************************************************************)
\* the previous tick reset or resized the store
AfterReset ==
  did.kind = "tick" /\ (did.zoomReset \/ did.resized \/ did.freq = "reset")

\* the claim as stated
C15_AsStated ==
  [][(TickStep /\ AfterReset) => ~did'.pushed]_vars

\* the amended claim
C15_WindowOnlyAfterCreation ==
  [][/\ st = "alloc" => update_count' >= update_count
     /\ TickStep => (did'.pushed <=> update_count' >= STABILIZE)
    ]_vars

\* a tick after the window resized the store, which reset it, and pushed
\* its row all the same
C15_Witness ==
  /\ did.kind = "tick" /\ did.resized /\ did.pushed
  /\ update_count > STABILIZE
  /\ head = 1


(***************************************************************************)
(* C16.  A render pass holds the display mutex exactly from its lock to    *)
(* its unlock: a pass that is at rest (not started, skipped or returned)   *)
(* does not hold it.  While it holds the mutex its next step never waits   *)
(* for anything, it emits at most depth strips and at most depth*width     *)
(* columns, and it always comes to release the mutex.  The producer's tick *)
(* only queues the redraw and never moves the render pass; the holder of   *)
(* the mutex, whoever it is, can always take its next step, and a producer *)
(* that finds the mutex taken by the renderer comes to own it.             *)
(***************************************************************************)
Holds == display_mutex = "renderer"

PassStep == RenderStrip \/ RenderDraw \/ RenderEnd

ProducerStep == TickLive \/ Unlock

ProducerWaits == pcP = "idle" /\ update_count < MaxLive /\ Holds

StripAges == {rp.strips[i].age0 : i \in 1 .. Len(rp.strips)}
             \cup {rp.strips[i].age1 : i \in 1 .. Len(rp.strips)}

C17_StripsOfCompletedPass ==
  /\ InPass => rp.needed <= rp.cap /\ rp.out <= rp.cap
  /\ rp.pc = "drawn" =>
       /\ Len(rp.strips) = rp.D - 1
       /\ \A i \in 1 .. Len(rp.strips) :
            LET s == rp.strips[i]
            IN /\ s.verts = 2 * rp.W
               /\ s.age0 = i - 1 /\ s.age1 = i
               /\ s.row0 = row_at_age(head, i - 1, depth)
               /\ s.row1 = row_at_age(head, i, depth)
               /\ s.first = (i - 1) * 2 * rp.W
       /\ StripAges = 0 .. (rp.D - 1)
       /\ rp.out = (rp.D - 1) * (2 * rp.W) * 7
       /\ rp.drawn = {<<rp.strips[i].first, rp.strips[i].verts>> : i \in 1 .. Len(rp.strips)}
       /\ Cardinality(rp.drawn) = rp.D - 1
       /\ \A dr \in rp.drawn : dr[1] >= 0 /\ (dr[1] + dr[2]) * 7 <= rp.out

\* a completed pass over a moved head, in a vertex buffer that an earlier,
\* wider pass had grown
C17_Witness ==
  /\ rp.pc = "drawn" /\ head > 0
  /\ rp.cap > rp.needed /\ Len(rp.strips) = WATERFALL_DEPTH - 1


(***************************************************************************)
(* C18.  Every call of the mapper with high > low returns alpha 1 and a    *)
(* height in [0,1] that no lower sample exceeds; its level p is            *)
(* (sample-low)/(high-low) clamped to [0,1]; at or below the noise         *)
(* threshold the colour is black and the height 0; at p = 1 the height is  *)
(* 1 and the colour is the base colour of the age and palette, not         *)
(* attenuated.                                                             *)
(***************************************************************************)
Mapped == vertex.row # << >>

C19_AsStated ==
  Mapped =>
    IF vertex.lv.automatic # 0
    THEN /\ Rat(vertex.db_min, 1) = AutomaticLow(vertex.row)
         /\ Rat(vertex.db_max, 1) = AutomaticHigh(vertex.row)
    ELSE /\ vertex.db_min = vertex.lv.low
         /\ vertex.db_max = vertex.lv.high


(***************************************************************************)
(* C20.  The camera state is zeroed when init creates the state and its    *)
(* history, and set to its defaults (tilt 2.8, zoom 2.0, not dragging) by  *)
(* a successful realize; from then on the tilt is in [0,5] and the zoom in *)
(* [1,4].  An update tick, whether or not it resets or resizes the         *)
(* history, leaves tilt_angle, zoom_level, dragging, drag_start_y and      *)
(* drag_start_tilt unchanged.                                              *)
(***************************************************************************)
Created == st = "NULL" /\ st' = "alloc"

CameraInRange ==
  /\ 0 <= tilt_angle /\ tilt_angle <= TILT_MAX
  /\ ZOOM_MIN <= zoom_level /\ zoom_level <= ZOOM_MAX

\* the claim as stated: defaults from creation onward
C20_AsStated ==
  /\ [](st = "alloc" => CameraInRange)
  /\ [][TickCam => UNCHANGED camVars]_vars

C20_CameraDefaultsAtRealize ==
  /\ [][Created => /\ tilt_angle' = 0 /\ zoom_level' = 0 /\ ~dragging'
                   /\ prog' = 0
                   /\ Cardinality(DOMAIN history') = WATERFALL_DEPTH * bins']_vars
  /\ [][(prog = 0 /\ prog' # 0) =>
          tilt_angle' = 2800 /\ zoom_level' = 2000 /\ ~dragging']_vars
  /\ [](prog # 0 => CameraInRange)
  /\ [][TickCam => UNCHANGED camVars]_vars

\* a tick resized the history in the middle of a drag that had moved the
\* tilt, after the zoom was scrolled
C20_Witness ==
  /\ did.kind = "tick" /\ did.resized
  /\ dragging /\ tilt_angle # 2800 /\ zoom_level # 2000 /\ prog # 0

(***************************************************************************)
(* C21.  On a tick whose retune is within half the sample rate, the number *)
(* of bins the rows are shifted by is the integer nearest to               *)
(* (old frequency - new frequency) / (sample_rate / bins).                 *)
(***************************************************************************)
\* the integer nearest to n / d (d > 0), halves away from zero
NearestInt(n, d) ==
  IF n >= 0 THEN (2 * n + d) \div (2 * d) ELSE -((2 * (-n) + d) \div (2 * d))

C21_AsStated ==
  [][(TickStep /\ did'.freq = "rotate") =>
       did'.k = NearestInt((waterfall_frequency - inp'.f) * bins', inp'.sr)]_vars

(***************************************************************************)
(* C22.  On a tick that retunes within the visible band (half of           *)
(* sample_rate / zoom to either side) without a zoom change or resize, the *)
(* history is shifted by the number of columns a fixed-frequency signal    *)
(* moves between the rows pushed before and after the retune, to within    *)
(* one column, a column being sample_rate / (bins * zoom) Hz.              *)
(***************************************************************************)
\* the retune of the tick, old frequency minus new, in Hz
Retune == waterfall_frequency - inp'.f

C22_AsStated ==
  [][(/\ TickStep /\ did'.freq = "rotate"
      /\ ~did'.zoomReset /\ ~did'.resized
      /\ 2 * Abs(Retune) * inp'.z <= inp'.sr) =>
       Abs(did'.k * inp'.sr - Retune * (bins' * inp'.z)) <= inp'.sr]_vars

(***************************************************************************)
(* C23.  A tick that neither rotated nor reset the history leaves the      *)
(* last-known frequency, sample rate, zoom and pan unchanged.              *)
(***************************************************************************)
TickRotated == did'.freq = "rotate" /\ did'.k # 0

C23_AsStated ==
  [][(TickStep /\ ~TickRotated /\ ~TickReset) => UNCHANGED trackVars]_vars

(***************************************************************************)
(* C24.  On a tick whose pan differs from the last-known pan, with         *)
(* frequency, sample rate, zoom and bin count unchanged, the rows already  *)
(* stored are either shifted by the pan difference or reset to the floor.  *)
(***************************************************************************)
PanOnly ==
  /\ TickStep /\ inp'.p # waterfall_pan
  /\ did'.freq = "same" /\ ~did'.zoomReset /\ ~did'.resized

\* the rows of the store other than the one this tick wrote
StoredRows == {r \in 0 .. (depth - 1) : ~(did'.pushed /\ r = head)}

C24_AsStated ==
  [][PanOnly =>
       \/ \A r \in StoredRows : RowOf(history', bins, r) = FloorRow(bins)
       \/ \A r \in StoredRows :
            RowOf(history', bins, r) =
              RotateRow(RowOf(history, bins, r), bins, waterfall_pan - inp'.p)]_vars

(***************************************************************************)
(* C25.  For d = depth-1, row_at_age(d) is the row at head itself, the row *)
(* the next push overwrites; no younger age maps to it, and it is the      *)
(* oldest row of the store: the row pushed depth-1 pushes before the       *)
(* newest, or a floor row when fewer than depth rows were pushed since the *)
(* last reset.                                                             *)
(***************************************************************************)
OldestAge == depth - 1

\* the claim as stated: the oldest row is the row after head
C25_AsStated ==
  (st = "alloc" /\ DOMAIN history # {}) =>
    row_at_age(head, OldestAge, depth) = CMod(head + 1, depth)

C25_OldestRowIsAtHead ==
  (st = "alloc" /\ DOMAIN history # {}) =>
    /\ row_at_age(head, OldestAge, depth) = head
    /\ \A d \in 0 .. (OldestAge - 1) : row_at_age(head, d, depth) # head
    /\ clean =>
         RowOf(history, bins, head) =
           (IF Len(log) >= depth THEN log[Len(log) - OldestAge]
            ELSE FloorRow(bins))

\* the ring has wrapped: the oldest row is a pushed row that differs from
\* the row after head, and head is not at the end of the store
C25_Witness ==
  /\ st = "alloc" /\ clean /\ Len(log) > depth
  /\ head + 1 < depth
  /\ RowOf(history, bins, head) # FloorRow(bins)
  /\ RowOf(history, bins, head) # RowOf(history, bins, head + 1)

(***************************************************************************)
(* C26.  A pointer move at y during a drag sets the tilt to                *)
(* drag_start_tilt + (y - drag_start_y) * sensitivity clamped to [0, 5],   *)
(* whatever the tilt was before the move, keeps the snapshot taken at the  *)
(* button press, and requests a redraw; a move back to drag_start_y gives  *)
(* the tilt drag_start_tilt again.                                         *)
(***************************************************************************)
C26_TiltFromSnapshot ==
  [][\A y \in Ys :
       (st = "alloc" /\ dragging /\ waterfall3dss_motion(y)) =>
         /\ tilt_angle' = clampf(drag_start_tilt + (y - drag_start_y) * SENSITIVITY,
                                 0, TILT_MAX)
         /\ y = drag_start_y => tilt_angle' = drag_start_tilt
         /\ render_queued'
         /\ UNCHANGED <<dragging, drag_start_y, drag_start_tilt, zoom_level>>]_vars

\* a second drag, begun at a tilt an earlier drag had left, was pulled to
\* the upper limit
C26_Witness ==
  /\ dragging /\ tilt_angle = TILT_MAX
  /\ drag_start_tilt \notin {0, 2800, TILT_MAX}
  /\ render_queued

(***************************************************************************)
(* C27.  None of the first 5 update ticks after the state was created      *)
(* writes a row or advances head; the 6th tick is the first to store its   *)
(* row.  (update_count' is the number of the tick.)                        *)
(***************************************************************************)
C27_AsStated ==
  [][TickStep =>
       IF update_count' <= STABILIZE
       THEN ~did'.pushed /\ head' = 0
       ELSE did'.pushed]_vars

(***************************************************************************)
(* C28.  In the 2D path, on an update with sample rate and zoom unchanged  *)
(* and a whole number of Hz per pixel: the frequency shift in pixels is    *)
(* the retune since the stored frequency divided by hz_per_pixel,          *)
(* truncated; a retune of less than one pixel moves neither the image nor  *)
(* the stored frequency, so it is carried to the next update; a shift of   *)
(* rotfreq pixels moves the stored frequency by exactly rotfreq pixels'    *)
(* worth of Hz and the image by rotfreq plus the pan change; a shift of    *)
(* the whole width or more blanks the image and adopts the VFO frequency.  *)
(* After the update the stored frequency is less than one pixel away from  *)
(* the VFO frequency.                                                      *)
(***************************************************************************)
Updated2D == wf2' # wf2 /\ wf2'.kind \in {"same", "shift", "reinit"}

C28_SubPixelRetunesKept ==
  [][(Updated2D /\ wf2'.sr % (wf2.w * wf2'.z) = 0) =>
       LET hz == wf2'.sr \div (wf2.w * wf2'.z)
           diff == waterfall_frequency - wf2'.vfo
           w == wf2.w
           h == wf2.h
           row == pixel_samples(1)
       IN /\ Abs(waterfall_frequency' - wf2'.vfo) < hz
          /\ wf2'.kind = "reinit" <=> Abs(wf2'.rotate_pixels) >= w
          /\ wf2'.kind = "reinit" =>
               /\ waterfall_frequency' = wf2'.vfo
               /\ wf2'.pixels = ScrollAndDraw(BlackImage(w, h), w, h, wf2'.pan, row)
          /\ wf2'.kind = "shift" =>
               /\ wf2'.rotfreq = TruncDiv(diff, hz)
               /\ wf2'.rotate_pixels = wf2'.rotfreq + (wf2.pan - wf2'.pan)
               /\ waterfall_frequency' = waterfall_frequency - wf2'.rotfreq * hz
               /\ Abs(diff) < hz => /\ waterfall_frequency' = waterfall_frequency
                                    /\ wf2'.drawn
               /\ Abs(diff) >= hz =>
                    /\ wf2'.rotfreq # 0 /\ ~wf2'.drawn
                    /\ wf2'.pixels = ShiftImage(wf2.pixels, w, h, wf2'.rotate_pixels)
          /\ wf2'.kind = "same" => waterfall_frequency' = waterfall_frequency]_vars

\* two retunes of less than a pixel added up to a shift of one pixel, which
\* moved an image that was not black, and left the stored frequency short
\* of the VFO frequency
C28_Witness ==
  /\ wf2.kind = "shift" /\ wf2.rotfreq # 0
  /\ wf2.rotate_pixels = wf2.rotfreq
  /\ Abs(wf2.old - wf2.vfo) > Abs(waterfall_frequency - wf2.vfo)
  /\ waterfall_frequency # wf2.vfo
  /\ \E j \in DOMAIN wf2.pixels : wf2.pixels[j] # 0

(***************************************************************************)
(* SpecRetune: the tracker of Spec with the rotations added up since the   *)
(* last reset of the history.                                              *)
(***************************************************************************)
InitRetune ==
  /\ st = "NULL" /\ prog = 0
  /\ depth = 0 /\ bins = 0 /\ head = 0 /\ history = << >>
  /\ update_count = 0
  /\ waterfall_zoom = 0 /\ waterfall_pan = 0
  /\ tilt_angle = 0 /\ zoom_level = 0 /\ dragging = FALSE
  /\ drag_start_y = 0 /\ drag_start_tilt = 0
  /\ waterfall_frequency = 0 /\ waterfall_sample_rate = 0
  /\ display_mutex = "free" /\ pcP = "idle" /\ rp = NoPass
  /\ render_queued = FALSE
  /\ inp = NoInput /\ did = NoTick /\ log = << >> /\ clean = FALSE
  /\ before = NoStore
  /\ levels = DefaultLevels /\ vertex = NoVertex /\ wf2 = No2D
  /\ retune = [NoRetune EXCEPT !.on = TRUE]

MaxRetune == 4

CreateRetune == \E px \in InitPixels : waterfall3dss_init(px)

TrackRetune == update_display(Freqs, SampleRates, {1}, {0}, {3, 4}, {1}, MaxRetune)

NextRetune == CreateRetune \/ TrackRetune

SpecRetune == InitRetune /\ [][NextRetune]_vars

(***************************************************************************)
(* C29.  With zoom 1, after any ticks since the last reset of the history, *)
(* the bins the history was rotated by in total differ from (frequency at  *)
(* the reset - current frequency) / hz_per_bin by less than one bin.       *)
(***************************************************************************)
C29_AsStated ==
  (retune.on /\ did.kind = "tick" /\ waterfall_zoom = 1) =>
    Abs(retune.shifted * waterfall_sample_rate
        - (retune.first - waterfall_frequency) * bins) < waterfall_sample_rate

(***************************************************************************)
(* SpecGuard: render passes interleaved with producer ticks that resize    *)
(* the history, or return early at a width of 2.                           *)
(***************************************************************************)
MaxGuard == 3
GuardWidths == {2, 3, 4}

LockGuard == ProducerLock(MaxGuard)

TickGuard == ProducerTick({100}, {24}, Zooms, {0}, GuardWidths, {1})

BeginGuard == \E w \in {2, 3} : RenderBegin(w, 3, FALSE)

NextGuard ==
  \/ Create \/ Realize
  \/ LockGuard \/ TickGuard \/ Unlock
  \/ BeginGuard \/ RenderLock \/ RenderStrip \/ RenderDraw \/ RenderEnd

SpecGuard == Init /\ [][NextGuard]_vars

(***************************************************************************)
(* C30.  A producer tick on a state with an allocated history and more     *)
(* than 2 bins leaves a history of exactly depth * bins cells, more than 2 *)
(* bins and the depth it had; and every render pass that holds the mutex   *)
(* reads, with the depth and bin count it took under the mutex, the        *)
(* current history of exactly depth * bins cells with more than 2 bins and *)
(* a depth of more than 2.                                                 *)
(***************************************************************************)
ProducerTicked == pcP = "locked" /\ pcP' = "updated"

PassHoldsMutex == rp.pc \in {"strip", "drawn"}

C30_GuardsSurviveTicks ==
  /\ [][(ProducerTicked /\ st = "alloc" /\ DOMAIN history # {} /\ bins > 2) =>
          /\ DOMAIN history' = 0 .. (depth' * bins' - 1)
          /\ bins' > 2
          /\ depth' = depth]_vars
  /\ [](PassHoldsMutex =>
          /\ rp.B > 2 /\ rp.D > 2
          /\ rp.B = bins /\ rp.D = depth
          /\ rp.snap.history = history
          /\ DOMAIN history = 0 .. (rp.D * rp.B - 1))

\* a pass tested the store, then a tick resized the history, then the pass
\* took the mutex
C30_Witness ==
  /\ rp.pc = "strip"
  /\ render_queued
  /\ did.kind = "tick" /\ did.resized
  /\ rp.B = bins

=============================================================================
